---- MODULE Spec2Model ----
(***************************************************************************)
(* Model of the video controller (src/src/controllers/video.controller.js) *)
(* of the Backend-project repository: getAllVideos, publishAVideo,         *)
(* getVideoById and updateVideo, run against a Video collection and a      *)
(* media store.  Every `await` of a handler is a point where another       *)
(* request's step may run, so publishAVideo and updateVideo are split at   *)
(* their awaits; getAllVideos and getVideoById have a single await.        *)
(*                                                                         *)
(* JavaScript strings are sequences of one-character strings; `undefined`  *)
(* is the value Absent (strings) or NoUser (identities).  Numbers parsed   *)
(* from the query string are kept in halves (h = 2 * value) so that 1.5    *)
(* is a value of the model.                                                *)
(***************************************************************************)
EXTENDS Integers, Sequences, FiniteSets, TLC

(* ------------------------------ bounds -------------------------------- *)
MaxVideos == 2
MaxUrls == 4

(* ------------------------------ values -------------------------------- *)
Slots == {1, 2}
Users == {"u1", "u2"}
NoUser == "undefined"
Callers == Users \cup {NoUser}
Absent == <<"undefined">>
NoId == -1
BadId == 0
Request(user, videoId, title, description, files) ==
  [user |-> user, videoId |-> videoId, title |-> title,
   description |-> description, files |-> files]
\* request inputs: the well-formed ones, and each defect on its own
Defects(user, videoId) ==
  {Request(user, videoId, t, <<"x">>, "both") : t \in {Absent, <<" ">>}}
  \cup {Request(user, videoId, <<"C">>, <<>>, "both")}
  \cup {Request(user, videoId, <<"C">>, <<"x">>, f) : f \in {"none", "videoOnly"}}
PublishRequests(callers, titles) ==
  {Request(u, NoId, t, <<"x">>, "both") : u \in callers, t \in titles}
  \cup Defects("u1", NoId)
UpdateRequests(titles) ==
  {Request(u, v, t, <<"x">>, "both") :
     u \in Callers, v \in 1..(MaxVideos + 1), t \in titles}
  \cup Defects("u1", 1)
  \cup {Request("u1", BadId, <<"C">>, <<"x">>, "both")}
NullResult == [isNull |-> TRUE, url |-> 0, duration |-> 0]
NullVideo ==
  [id |-> 0, videoFile |-> 0, thumbnail |-> 0, title |-> Absent,
   description |-> Absent, duration |-> 0, owner |-> NoUser,
   isPublished |-> FALSE]
\* a request slot: the local variables of one running handler
IdleSlot ==
  [op |-> "none", pc |-> "idle", user |-> NoUser, videoId |-> NoId,
   title |-> Absent, description |-> Absent, files |-> "none",
   videoFile |-> NullResult, thumbnail |-> NullResult, oldThumbnail |-> 0,
   ownerSeen |-> NoUser, updatedVideo |-> NullVideo, events |-> <<>>]
NoQuery ==
  [page |-> "undefined", limit |-> "undefined", query |-> Absent,
   sortBy |-> "undefined", sortType |-> "undefined", userId |-> "undefined"]
\* the response sent by the step just taken (op = "none": no response)
NoResp ==
  [op |-> "none", status |-> 0, message |-> "", data |-> NullVideo,
   call |-> IdleSlot, videoId |-> NoId, query |-> NoQuery,
   page |-> <<>>, ranked |-> <<>>, aggregated |-> FALSE]

VARIABLES videos, nextUrl, deleted, slots, resp
vars == <<videos, nextUrl, deleted, slots, resp>>

(* --------------------------- string helpers --------------------------- *)
RECURSIVE TrimStart(_)
TrimStart(s) ==
  IF s = <<>> THEN s
  ELSE IF Head(s) = " " THEN TrimStart(Tail(s)) ELSE s

RECURSIVE TrimEnd(_)
TrimEnd(s) ==
  IF s = <<>> THEN s
  ELSE IF s[Len(s)] = " " THEN TrimEnd(SubSeq(s, 1, Len(s) - 1)) ELSE s

TrimNone(s) == s

trim(s) == TrimEnd(TrimStart(s))

Falsy(s) == s = Absent \/ s = <<>>

Blank(s) == Falsy(s) \/ trim(s) = <<>>

(* --------------------------- collaborators ---------------------------- *)
isValidObjectId(id) == id >= 1

isValidUserId(id) == id # "bad"

VideoMethods == {"create", "findById", "findByIdAndUpdate", "aggregate"}

IsFunction(method) == method \in VideoMethods

Row(coll, id) ==
  IF id \in 1..Len(coll)
  THEN [id |-> id, videoFile |-> coll[id].videoFile,
        thumbnail |-> coll[id].thumbnail, title |-> coll[id].title,
        description |-> coll[id].description,
        duration |-> coll[id].duration, owner |-> coll[id].owner,
        isPublished |-> coll[id].isPublished]
  ELSE NullVideo

findById(coll, id) == Row(coll, id)

IsPublishedDefault == TRUE

uploadOnCloudinary(durations) ==
  {NullResult} \cup
  (IF nextUrl <= MaxUrls
   THEN {[isNull |-> FALSE, url |-> nextUrl, duration |-> d] : d \in durations}
   ELSE {})

Stored(result) == IF result.isNull THEN nextUrl ELSE nextUrl + 1

Event(e, url) == [e |-> e, url |-> url]

(* ----------------------------- responses ------------------------------ *)
Response(call, status, message, data) ==
  [NoResp EXCEPT !.op = call.op, !.status = status, !.message = message,
                 !.data = data, !.call = [call EXCEPT !.pc = "done"]]

\* the handler in slot s responds (or throws) and ends
Finish(s, status, message, data, events) ==
  /\ resp' = Response([slots[s] EXCEPT !.events = @ \o events],
                      status, message, data)
  /\ slots' = [slots EXCEPT ![s] = IdleSlot]

\* a new request takes the first slot that runs no handler
Free(s) ==
  /\ slots[s].pc = "idle"
  /\ \A t \in Slots : t < s => slots[t].pc # "idle"

Init ==
  /\ videos = <<>>
  /\ nextUrl = 1
  /\ deleted = {}
  /\ slots = [s \in Slots |-> IdleSlot]
  /\ resp = NoResp

(* --------------------------- publishAVideo ---------------------------- *)
InFlight ==
  Cardinality({s \in Slots : slots[s].op = "publish"})

\* lines 100-117: read the request, validate, upload the video file
PublishStart(s, requests, durations) ==
  \E body \in requests :
    LET user == body.user
        title == body.title
        description == body.description
        files == body.files
        req == [IdleSlot EXCEPT !.op = "publish", !.user = user,
                                !.title = title, !.description = description,
                                !.files = files]
        fail(status, message) ==
          /\ resp' = Response(req, status, message, NullVideo)
          /\ UNCHANGED <<slots, nextUrl>>
    IN /\ Free(s)
       /\ Len(videos) + InFlight < MaxVideos
       /\ IF files = "videoOnly"
          THEN fail(500, "TypeError")
          ELSE IF Blank(title) \/ Blank(description)
          THEN fail(400, "Tilte and description are required fields")
          ELSE IF files = "none"
          THEN fail(400, "no video file or thumbnail detected")
          ELSE \E r \in uploadOnCloudinary(durations) :
                 /\ slots' = [slots EXCEPT ![s] =
                                [req EXCEPT !.pc = "uploadThumbnail",
                                            !.videoFile = r,
                                            !.events =
                                              <<Event("uploadVideo", r.url)>>]]
                 /\ nextUrl' = Stored(r)
                 /\ resp' = NoResp
       /\ UNCHANGED <<videos, deleted>>

\* line 120: !(videoFile && thumbnail)
UploadFailedBoth(videoFile, thumbnail) == videoFile.isNull /\ thumbnail.isNull

UploadFailed(videoFile, thumbnail) == videoFile.isNull \/ thumbnail.isNull

\* lines 118-125: upload the thumbnail, then test both results
PublishUploadThumbnail(s) ==
  /\ slots[s].op = "publish"
  /\ slots[s].pc = "uploadThumbnail"
  /\ \E r \in uploadOnCloudinary({0}) :
       /\ nextUrl' = Stored(r)
       /\ IF UploadFailed(slots[s].videoFile, r)
          THEN Finish(s, 500,
                      "Something went wrong while uploading the video or thumbnail",
                      NullVideo, <<Event("uploadThumbnail", r.url)>>)
          ELSE /\ slots' = [slots EXCEPT ![s] =
                              [@ EXCEPT !.pc = "create", !.thumbnail = r,
                                        !.events =
                                          @ \o <<Event("uploadThumbnail", r.url)>>]]
               /\ resp' = NoResp
  /\ UNCHANGED <<videos, deleted>>

\* lines 127-136: the document handed to Video.create
VideoToUpload(s) ==
  [videoFile |-> slots[s].videoFile.url,
   thumbnail |-> slots[s].thumbnail.url,
   title |-> slots[s].title,
   description |-> slots[s].description,
   duration |-> slots[s].videoFile.duration,
   owner |-> slots[s].user,
   isPublished |-> IsPublishedDefault]

\* lines 127-146: create the record, read it back, respond
PublishCreate(s) ==
  /\ slots[s].op = "publish"
  /\ slots[s].pc = "create"
  /\ \E dbOk \in BOOLEAN :
       IF ~dbOk
       THEN /\ Finish(s, 500, "MongoError", NullVideo, <<>>)
            /\ UNCHANGED videos
       ELSE /\ videos' = Append(videos, VideoToUpload(s))
            /\ IF ~IsFunction("findbyId")
               THEN Finish(s, 500, "TypeError", NullVideo,
                           <<Event("create", Len(videos'))>>)
               ELSE Finish(s, 200, "Video Uploaded successfully",
                           findById(videos', Len(videos')),
                           <<Event("create", Len(videos'))>>)
  /\ UNCHANGED <<nextUrl, deleted>>

(* ---------------------------- updateVideo ----------------------------- *)
\* line 193: req.user?._id.toString() !== video.owner.toString()
OwnerCheck(user, owner) ==
  IF owner = NoUser THEN "TypeError"
  ELSE IF user # owner THEN "forbidden" ELSE "owner"

\* lines 170-198: validate, load the video, check the owner
UpdateStart(s, requests) ==
  \E body \in requests :
    LET user == body.user
        videoId == body.videoId
        title == body.title
        description == body.description
        files == body.files
        req == [IdleSlot EXCEPT !.op = "update", !.user = user,
                                !.videoId = videoId, !.title = title,
                                !.description = description, !.files = files]
        video == findById(videos, videoId)
        fail(status, message, owner) ==
          /\ resp' = Response([req EXCEPT !.ownerSeen = owner], status,
                              message, NullVideo)
          /\ UNCHANGED slots
    IN /\ Free(s)
       /\ IF ~isValidObjectId(videoId)
          THEN fail(400, "Invalid video ID", NoUser)
          ELSE IF files = "videoOnly"
          THEN fail(500, "TypeError", NoUser)
          ELSE IF files = "none"
          THEN fail(400, "No thumbnail file detected", NoUser)
          ELSE IF Falsy(title) \/ Falsy(description)
                  \/ trim(title) = <<>> \/ trim(description) = <<>>
          THEN fail(400, "Title and description are required fields", NoUser)
          ELSE IF video = NullVideo
          THEN fail(404, "Video not found", NoUser)
          ELSE IF OwnerCheck(user, video.owner) = "TypeError"
          THEN fail(500, "TypeError", video.owner)
          ELSE IF OwnerCheck(user, video.owner) = "forbidden"
          THEN fail(403, "You are not authorized to update this video",
                    video.owner)
          ELSE /\ slots' = [slots EXCEPT ![s] =
                              [req EXCEPT !.pc = "upload",
                                          !.ownerSeen = video.owner,
                                          !.oldThumbnail = video.thumbnail]]
               /\ resp' = NoResp
       /\ UNCHANGED <<videos, nextUrl, deleted>>

\* lines 198-202: upload the new thumbnail
UpdateUpload(s) ==
  /\ slots[s].op = "update"
  /\ slots[s].pc = "upload"
  /\ \E r \in uploadOnCloudinary({0}) :
       /\ nextUrl' = Stored(r)
       /\ IF r.isNull
          THEN Finish(s, 500, "Failed to upload the new thumbnail", NullVideo,
                      <<Event("upload", r.url)>>)
          ELSE /\ slots' = [slots EXCEPT ![s] =
                              [@ EXCEPT !.pc = "write", !.thumbnail = r,
                                        !.events =
                                          @ \o <<Event("upload", r.url)>>]]
               /\ resp' = NoResp
  /\ UNCHANGED <<videos, deleted>>

\* lines 204-214: Video.findByIdAndUpdate(videoId, {$set: ...}, {new: true})
findByIdAndUpdateText(coll, id, title, description, thumbnail) ==
  [coll EXCEPT ![id] = [@ EXCEPT !.title = title,
                                 !.description = description]]

findByIdAndUpdate(coll, id, title, description, thumbnail) ==
  [coll EXCEPT ![id] = [@ EXCEPT !.title = title,
                                 !.description = description,
                                 !.thumbnail = thumbnail]]

\* lines 204-216: write the record, then decide on the cleanup
UpdateWrite(s) ==
  /\ slots[s].op = "update"
  /\ slots[s].pc = "write"
  /\ \E dbOk \in BOOLEAN :
       IF ~dbOk
       THEN /\ Finish(s, 500, "MongoError", NullVideo, <<>>)
            /\ UNCHANGED videos
       ELSE /\ videos' = findByIdAndUpdate(videos, slots[s].videoId,
                                           slots[s].title, slots[s].description,
                                           slots[s].thumbnail.url)
            /\ IF slots[s].oldThumbnail # 0
               THEN /\ slots' = [slots EXCEPT ![s] =
                                   [@ EXCEPT !.pc = "delete",
                                             !.updatedVideo =
                                               findById(videos', slots[s].videoId),
                                             !.events =
                                               @ \o <<Event("write",
                                                            slots[s].thumbnail.url)>>]]
                    /\ resp' = NoResp
               ELSE Finish(s, 200, "The video is updated successfully",
                           findById(videos', slots[s].videoId),
                           <<Event("write", slots[s].thumbnail.url)>>)
  /\ UNCHANGED <<nextUrl, deleted>>

\* line 217: the asset handed to deleteFromCloudinary
DeleteNew(s) == slots[s].thumbnail.url

DeleteTarget(s) == slots[s].oldThumbnail

\* lines 216-224: deleteFromCloudinary(oldThumbnail), then respond
UpdateDelete(s) ==
  /\ slots[s].op = "update"
  /\ slots[s].pc = "delete"
  /\ deleted' = deleted \cup {DeleteTarget(s)}
  /\ Finish(s, 200, "The video is updated successfully",
            slots[s].updatedVideo,
            <<Event("delete", DeleteTarget(s))>>)
  /\ UNCHANGED <<videos, nextUrl>>

(* ---------------------------- getVideoById ---------------------------- *)
\* lines 151-167
getVideoById ==
  \E videoId \in {NoId} \cup 1..(MaxVideos + 1) :
    LET send(status, message, data) ==
          [NoResp EXCEPT !.op = "getVideoById", !.videoId = videoId,
                         !.status = status, !.message = message,
                         !.data = data]
    IN /\ resp' =
            IF videoId = NoId
            THEN send(400, "There is no such video", NullVideo)
            ELSE IF ~IsFunction("findbyId")
            THEN send(500, "TypeError", NullVideo)
            ELSE IF findById(videos, videoId) = NullVideo
            THEN send(400, "No video found", NullVideo)
            ELSE send(200, "Video Found and fetched successfully",
                      findById(videos, videoId))
       /\ UNCHANGED <<videos, nextUrl, deleted, slots>>

(* ---------------------------- getAllVideos ---------------------------- *)
ListQuery(page, limit, query, sortBy, sortType, userId) ==
  [page |-> page, limit |-> limit, query |-> query, sortBy |-> sortBy,
   sortType |-> sortType, userId |-> userId]

\* query strings: pagination cases, filter cases, validation cases
ListQueries ==
  {ListQuery(p, l, <<"c">>, "duration", t, "u1") :
     p \in {"1", "2", "3", "1.5"}, l \in {"1", "2", "1.5"},
     t \in {"asc", "desc"}}
  \cup {ListQuery("1", "2", q, "undefined", "undefined", u) :
          q \in {<<"c">>, <<" ", "d", " ">>},
          u \in {"u1", "u2", "undefined", "bad"}}
  \cup {ListQuery(p, l, q, "duration", "undefined", "u1") :
          p \in {"undefined", "abc", "Infinity", "0", "0.5"},
          l \in {"undefined", "abc", "0"},
          q \in {Absent, <<>>, <<" ">>, <<"c">>}}

\* Number(x) for the values a query string carries; h is twice the number
Number(x) ==
  CASE x = "abc" -> [finite |-> FALSE, h |-> 0]
    [] x = "Infinity" -> [finite |-> FALSE, h |-> 1]
    [] x = "0" -> [finite |-> TRUE, h |-> 0]
    [] x = "0.5" -> [finite |-> TRUE, h |-> 1]
    [] x = "1" -> [finite |-> TRUE, h |-> 2]
    [] x = "1.5" -> [finite |-> TRUE, h |-> 3]
    [] x = "2" -> [finite |-> TRUE, h |-> 4]
    [] x = "3" -> [finite |-> TRUE, h |-> 6]
    [] x = "10" -> [finite |-> TRUE, h |-> 20]

\* line 14: const { page = 1, limit = 10, ... } = req.query
Default(x, d) == IF x = "undefined" THEN d ELSE x

\* lines 21, 24: !Number.isFinite(n) || n < 1
NotPositive(n) == ~n.finite \/ n.h < 2

ToLowerCase(s) ==
  [i \in 1..Len(s) |-> IF s[i] = "C" THEN "c" ELSE IF s[i] = "D" THEN "d" ELSE s[i]]

\* new RegExp(pattern, "i") tested against a title (patterns are plain text)
RegexMatch(pattern, title) ==
  \E i \in 1..(Len(title) + 1) :
    /\ i + Len(pattern) - 1 <= Len(title)
    /\ SubSeq(ToLowerCase(title), i, i + Len(pattern) - 1) = ToLowerCase(pattern)

\* lines 43-51: $match.  mongoose.Types.ObjectId is taken to be callable
\* without `new` (Mongoose 6 and earlier); ObjectId(undefined) is then a
\* fresh id that owns nothing.
Match(coll, q) ==
  {id \in 1..Len(coll) :
     /\ q.userId # "undefined"
     /\ coll[id].owner = q.userId
     /\ coll[id].isPublished
     /\ RegexMatch(trim(q.query), coll[id].title)}

\* lines 67-71: $sort by [sortBy]; a field no document has compares equal
SortKey(coll, id, sortBy) == IF sortBy = "duration" THEN coll[id].duration ELSE 0

Sorted(coll, ranked, q) ==
  \A i, j \in 1..Len(ranked) :
    i < j =>
      IF q.sortType = "desc"
      THEN SortKey(coll, ranked[i], q.sortBy) >= SortKey(coll, ranked[j], q.sortBy)
      ELSE SortKey(coll, ranked[i], q.sortBy) <= SortKey(coll, ranked[j], q.sortBy)

Orders(ids) ==
  {f \in [1..Cardinality(ids) -> ids] :
     \A i, j \in 1..Cardinality(ids) : i # j => f[i] # f[j]}

\* line 39: startIndex = (pageNum - 1) * limitNum, in quarters
startIndexFromPage(pageNum, limitNum) == pageNum.h * limitNum.h

startIndex(pageNum, limitNum) == (pageNum.h - 2) * limitNum.h

\* lines 72-77: $skip, $limit on the sorted matches
Page(ranked, skip, limit) ==
  SubSeq(ranked, skip + 1,
         IF skip + limit < Len(ranked) THEN skip + limit ELSE Len(ranked))

\* lines 12-97
getAllVideos(queries) ==
  \E q \in queries :
    LET pageNum == Number(Default(q.page, "1"))
        limitNum == Number(Default(q.limit, "10"))
        send(status, message, page, ranked, aggregated) ==
          [NoResp EXCEPT !.op = "getAllVideos", !.query = q,
                         !.status = status, !.message = message,
                         !.page = page, !.ranked = ranked,
                         !.aggregated = aggregated]
    IN /\ IF NotPositive(pageNum)
          THEN resp' = send(400, "Page should be a positive integer",
                            <<>>, <<>>, FALSE)
          ELSE IF NotPositive(limitNum)
          THEN resp' = send(400, "Video limit should be a positive integer",
                            <<>>, <<>>, FALSE)
          ELSE IF Falsy(q.query) \/ Falsy(trim(q.query))
          THEN resp' = send(400, "Query is required", <<>>, <<>>, FALSE)
          ELSE IF q.userId # "undefined" /\ ~isValidUserId(q.userId)
          THEN resp' = send(400, "Please provide a valid user id",
                            <<>>, <<>>, FALSE)
          ELSE \E ranked \in Orders(Match(videos, q)) :
                 /\ Sorted(videos, ranked, q)
                 /\ IF startIndex(pageNum, limitNum) % 4 = 0 /\ limitNum.h % 2 = 0
                    THEN resp' = send(200, "All videos fetched successfully",
                                      Page(ranked,
                                           startIndex(pageNum, limitNum) \div 4,
                                           limitNum.h \div 2),
                                      ranked, TRUE)
                    ELSE \E engine \in {"rejects", "truncates"} :
                           resp' =
                             IF engine = "rejects"
                             THEN send(500, "MongoServerError", <<>>, ranked, TRUE)
                             ELSE send(200, "All videos fetched successfully",
                                       Page(ranked,
                                            startIndex(pageNum, limitNum) \div 4,
                                            limitNum.h \div 2),
                                       ranked, TRUE)
       /\ UNCHANGED <<videos, nextUrl, deleted, slots>>

Next ==
  \/ \E s \in Slots : PublishStart(s, PublishRequests(Callers, {<<"C">>}), {1})
  \/ \E s \in Slots : PublishUploadThumbnail(s)
  \/ \E s \in Slots : PublishCreate(s)
  \/ \E s \in Slots : UpdateStart(s, UpdateRequests({<<"d">>}))
  \/ \E s \in Slots : UpdateUpload(s)
  \/ \E s \in Slots : UpdateWrite(s)
  \/ \E s \in Slots : UpdateDelete(s)
  \/ getVideoById

Spec == Init /\ [][Next]_vars

\* the listing, run between publish requests of authenticated callers
Quiet == \A s \in Slots : slots[s].pc = "idle"

NextList ==
  \/ PublishStart(1, PublishRequests(Users, {<<"C">>, <<"d">>}), {1, 2})
  \/ PublishUploadThumbnail(1)
  \/ PublishCreate(1)
  \/ Quiet /\ getAllVideos(ListQueries)

SpecList == Init /\ [][NextList]_vars

(* ------------------------------ claims -------------------------------- *)
NonBlankText(t) == t # Absent /\ \E i \in 1..Len(t) : t[i] # " "

Names(events) == [i \in 1..Len(events) |-> events[i].e]

\* the handlers of one kind: those running, and the one that just responded
Calls(op) ==
  {slots[s] : s \in {t \in Slots : slots[t].op = op}}
  \cup (IF resp.op = op THEN {resp.call} ELSE {})

WellFormedUpdate(c) ==
  /\ isValidObjectId(c.videoId)
  /\ c.files = "both"
  /\ NonBlankText(c.title)
  /\ NonBlankText(c.description)

\* C1: an updateVideo request with a well-formed id, a thumbnail file and
\* non-blank title and description, on an existing video whose stored owner
\* differs from the caller, ends with 403 and issues no upload, no delete
\* and no write.
C1_NonOwnerForbidden ==
  (/\ resp.op = "update"
   /\ WellFormedUpdate(resp.call)
   /\ resp.call.videoId \in 1..Len(videos)
   /\ resp.call.user # videos[resp.call.videoId].owner)
  => /\ resp.status = 403
     /\ resp.call.events = <<>>

C3_PublishReturnsCreatedVideo ==
  (/\ resp.op = "publish"
   /\ NonBlankText(resp.call.title)
   /\ NonBlankText(resp.call.description)
   /\ resp.call.files = "both"
   /\ Names(resp.call.events) = <<"uploadVideo", "uploadThumbnail", "create">>)
  => /\ resp.status = 200
     /\ resp.data.duration = resp.call.videoFile.duration
     /\ resp.data.owner = resp.call.user

\* C4: getVideoById answers an identifier of no stored video with a
\* not-found error (never 200 with null data) and an identifier of a stored
\* video with 200 and that record.
C4_GetVideoById ==
  (resp.op = "getVideoById" /\ resp.videoId # NoId) =>
    IF resp.videoId \in 1..Len(videos)
    THEN resp.status = 200 /\ resp.data = Row(videos, resp.videoId)
    ELSE resp.status \in {400, 404} /\ resp.data = NullVideo

\* C5: publishAVideo uploads the video file, then the thumbnail, then creates
\* the record; when an upload returns no result the request ends with 500
\* after exactly those two uploads, with no record created from them and no
\* delete issued.
C5_UploadsBeforeCreate ==
  /\ \A c \in Calls("publish") :
       /\ Names(c.events) \in
            {<<>>, <<"uploadVideo">>, <<"uploadVideo", "uploadThumbnail">>,
             <<"uploadVideo", "uploadThumbnail", "create">>}
       /\ \A i \in 1..Len(c.events) :
            c.events[i].e = "create" =>
              /\ c.events[1].url # 0
              /\ c.events[2].url # 0
              /\ videos[c.events[i].url].videoFile = c.events[1].url
              /\ videos[c.events[i].url].thumbnail = c.events[2].url
       /\ (Len(c.events) >= 2 /\ (c.events[1].url = 0 \/ c.events[2].url = 0)) =>
            /\ c = resp.call
            /\ resp.status = 500
            /\ Len(c.events) = 2
            /\ \A i \in 1..2 : c.events[i].url \notin deleted
            /\ \A id \in 1..Len(videos) :
                 {videos[id].videoFile, videos[id].thumbnail}
                   \cap {c.events[1].url, c.events[2].url} = {}
  /\ \A id \in 1..Len(videos) :
       videos[id].videoFile # 0 /\ videos[id].thumbnail # 0

C5_Witness ==
  /\ resp.op = "publish"
  /\ resp.status = 500
  /\ Len(resp.call.events) = 2
  /\ resp.call.events[1].url # 0
  /\ resp.call.events[2].url = 0

\* C6: every persisted Video has a videoFile URL, a thumbnail URL and an
\* owner that is a User.
C6_PersistedVideosValid ==
  \A id \in 1..Len(videos) :
    /\ videos[id].videoFile # 0
    /\ videos[id].thumbnail # 0
    /\ videos[id].owner \in Users

\* C7: for integers page >= 1 and limit >= 1 (and a non-blank query and a
\* usable userId) getAllVideos answers 200 with the records that follow the
\* first (page-1)*limit of the sorted matching records, at most limit of
\* them; the page is empty when no more than (page-1)*limit records match.
IntegerFrom(x) == Number(x).finite /\ Number(x).h >= 2 /\ Number(x).h % 2 = 0

C7_Pagination ==
  LET q == resp.query
      p == Default(q.page, "1")
      l == Default(q.limit, "10")
      page == Number(p).h \div 2
      limit == Number(l).h \div 2
      skip == (page - 1) * limit
      matching ==
        {id \in 1..Len(videos) :
           /\ q.userId \in Users
           /\ videos[id].owner = q.userId
           /\ videos[id].isPublished
           /\ RegexMatch(trim(q.query), videos[id].title)}
      left == Cardinality(matching) - skip
  IN (/\ resp.op = "getAllVideos"
      /\ IntegerFrom(p) /\ IntegerFrom(l)
      /\ NonBlankText(q.query)
      /\ q.userId # "bad")
     => /\ resp.status = 200
        /\ Len(resp.ranked) = Cardinality(matching)
        /\ {resp.ranked[i] : i \in 1..Len(resp.ranked)} = matching
        /\ Sorted(videos, resp.ranked, q)
        /\ Len(resp.page) =
             (IF left <= 0 THEN 0 ELSE IF left < limit THEN left ELSE limit)
        /\ \A i \in 1..Len(resp.page) : resp.page[i] = resp.ranked[skip + i]

C7_Witness ==
  /\ resp.op = "getAllVideos"
  /\ resp.status = 200
  /\ resp.query.page = "2"
  /\ resp.query.limit = "1"
  /\ Len(resp.ranked) = 2
  /\ resp.page = <<resp.ranked[2]>>
  /\ videos[resp.ranked[1]].duration # videos[resp.ranked[2]].duration

\* C8: getAllVideos answers 400 without running the aggregation when page is
\* not a finite number >= 1 (message about the page), else when limit is not
\* one (message about the limit), else when query is missing, empty or only
\* whitespace (message about the query).
Offending(x) == ~Number(x).finite \/ Number(x).h < 2

C8_ListValidation ==
  LET q == resp.query
      p == Default(q.page, "1")
      l == Default(q.limit, "10")
      rejected(message) ==
        resp.status = 400 /\ resp.message = message /\ ~resp.aggregated
  IN resp.op = "getAllVideos" =>
       /\ Offending(p) => rejected("Page should be a positive integer")
       /\ (~Offending(p) /\ Offending(l)) =>
            rejected("Video limit should be a positive integer")
       /\ (~Offending(p) /\ ~Offending(l) /\ ~NonBlankText(q.query)) =>
            rejected("Query is required")

C8_Witness ==
  /\ resp.op = "getAllVideos"
  /\ resp.query.page = "undefined"
  /\ resp.query.limit = "0"
  /\ resp.query.query = <<" ">>
  /\ resp.status = 400
  /\ resp.message = "Video limit should be a positive integer"

\* C9: getAllVideos answers 400 when page or limit parses to a number that
\* is not an integer, so the aggregation never receives a fractional limit.
C9_FractionRejected ==
  LET q == resp.query
      p == Number(Default(q.page, "1"))
      l == Number(Default(q.limit, "10"))
  IN (/\ resp.op = "getAllVideos"
      /\ \/ p.finite /\ p.h % 2 = 1
         \/ l.finite /\ l.h % 2 = 1)
     => resp.status = 400 /\ ~resp.aggregated

\* C10: the thumbnail stored on a Video is never an asset for which a delete
\* has been issued, whatever the interleaving of updateVideo requests.
C10_StoredThumbnailNotDeleted ==
  \A id \in 1..Len(videos) : videos[id].thumbnail \notin deleted

\* two updates of one video overlap: one has deleted the thumbnail the other
\* read and still holds
C10_Witness ==
  \E s \in Slots :
    /\ slots[s].op = "update"
    /\ slots[s].pc \in {"upload", "write", "delete"}
    /\ slots[s].oldThumbnail \in deleted

====
